---- MODULE Spec2Model ----
(***************************************************************************)
(* The confidence-driven handoff workflow of looped: one conversation turn *)
(* of runHandoffWorkflow (lib/ai/handoff-workflow) and one turn of         *)
(* runConcurrentWorkflow (lib/ai/concurrent-workflow.ts), with the         *)
(* language model, the knowledge-base search and the conversation-status   *)
(* update as collaborators whose outcomes are chosen nondeterministically. *)
(* Further specifications cover the simple workflow of lib/ai/workflow.ts,  *)
(* the handoff step applied again, the batch of turns of                   *)
(* processBatchConversations and the handle pool LLMPool.                  *)
(*                                                                         *)
(* Numbers are JavaScript numbers in thousandths (0.5 is 500); every       *)
(* confidence the collaborators report is a multiple of 0.05, so that the  *)
(* products with 0.6, 0.4 and 0.7 are exact.  NaN and undefined are        *)
(* encoded as two integers outside the range of every computed value and   *)
(* all arithmetic and comparisons go through the operators below, which    *)
(* treat them as JavaScript does.  Texts are sequences of named sentences. *)
(***************************************************************************)
EXTENDS Integers, Sequences, FiniteSets, TLC

VARIABLES variant, pc, state, step, obs, calls, path, escaped, pool, batch,
          cache, route

vars == <<variant, pc, state, step, obs, calls, path, escaped, pool, batch,
          cache, route>>

(***************************************************************************)
(* Bounds                                                                  *)
(***************************************************************************)
\* longest list the suggestion model call returns
MaxSuggestionItems == 4

(***************************************************************************)
(* JavaScript numbers                                                      *)
(***************************************************************************)
NaN == -1000000

Undefined == -2000000

IsNumber(x) == x # NaN /\ x # Undefined

\* ToNumber: undefined becomes NaN in arithmetic
ToNumber(x) == IF x = Undefined THEN NaN ELSE x

\* x || d
OrElse(x, d) == IF x = Undefined \/ x = NaN \/ x = 0 THEN d ELSE x

\* x < y, false when either side is NaN
Lt(x, y) == ToNumber(x) # NaN /\ ToNumber(y) # NaN /\ x < y

\* x > y, false when either side is NaN
Gt(x, y) == ToNumber(x) # NaN /\ ToNumber(y) # NaN /\ x > y

\* Math.min(x, y), NaN when either side is NaN
MathMin(x, y) ==
  IF ToNumber(x) = NaN \/ ToNumber(y) = NaN THEN NaN
  ELSE IF x < y THEN x ELSE y

\* x * (k / 10) for a literal k / 10
TimesTenths(x, k) == IF ToNumber(x) = NaN THEN NaN ELSE (x * k) \div 10

\* x + y
Plus(x, y) ==
  IF ToNumber(x) = NaN \/ ToNumber(y) = NaN THEN NaN ELSE x + y

(***************************************************************************)
(* Collaborator outcomes                                                   *)
(***************************************************************************)
\* confidences a model payload may carry: absent, negative, zero, in range,
\* above one
ReportedConfidences == {Undefined, -500, 0, 200, 500, 600, 700, 800, 1000, 1500}

\* One completion of llm.invoke for the analysis or the response prompt:
\*   throw   the call rejects
\*   garbage text that is not JSON
\*   json    bare JSON text
\*   fenced  JSON inside a ``` fence
\* isNull: the JSON text is the literal null; conf / flag: the payload's
\* confidence field and its human-needed field (absent reads as false).
NoPayload == [kind |-> "unused", isNull |-> FALSE, conf |-> Undefined, flag |-> FALSE]

ModelOutputs ==
  {[NoPayload EXCEPT !.kind = k] : k \in {"throw", "garbage"}}
  \cup {[NoPayload EXCEPT !.kind = k, !.isNull = TRUE] : k \in {"json", "fenced"}}
  \cup [kind : {"json", "fenced"}, isNull : {FALSE},
        conf : ReportedConfidences, flag : BOOLEAN]

\* One completion of llm.invoke for the suggestions prompt; items are the
\* confidences of the entries of the returned array.
NoSuggestionOutput == [kind |-> "unused", items |-> <<>>]

SuggestionOutputs ==
  {[NoSuggestionOutput EXCEPT !.kind = k] : k \in {"throw", "garbage", "fenced"}}
  \cup {[kind |-> "json", items |-> [i \in 1..n |-> c]] :
          n \in 0..MaxSuggestionItems, c \in {600, 900}}

\* KnowledgeBaseService.search: rejects, or resolves with the chunks that
\* cleared the threshold and one source per contributing document.
NoSearch == [kind |-> "unused", chunks |-> <<>>, sources |-> <<>>]

SearchOutcomes ==
  { [kind |-> "throw", chunks |-> <<>>, sources |-> <<>>],
    [kind |-> "ok", chunks |-> <<>>, sources |-> <<>>],
    [kind |-> "ok", chunks |-> <<"chunk_a">>, sources |-> <<"doc_1">>],
    [kind |-> "ok", chunks |-> <<"chunk_a", "chunk_b">>, sources |-> <<"doc_1", "doc_2">>] }

\* the conversations update: resolves, resolves with an error object, rejects
PersistOutcomes == {"ok", "error", "throw"}

(***************************************************************************)
(* Parsing of model output                                                 *)
(***************************************************************************)
\* extractAndParseJson: strips a ``` fence when there is one, then JSON.parse
ExtractAndParseJson(out) ==
  [threw |-> out.kind \notin {"json", "fenced"},
   isNull |-> out.isNull, conf |-> out.conf, flag |-> out.flag]

\* JSON.parse(response.content): a fenced payload is not JSON
JsonParse(out) ==
  [threw |-> out.kind # "json",
   isNull |-> out.isNull, conf |-> out.conf, flag |-> out.flag]

(***************************************************************************)
(* Workflow state (HandoffWorkflowState / ConcurrentWorkflowState)         *)
(***************************************************************************)
InitialState ==
  [currentStatus |-> "green",
   confidence |-> 800,
   retrievedContext |-> <<>>,
   suggestions |-> <<>>,
   needsHumanIntervention |-> FALSE,
   finalResponse |-> <<>>,
   sources |-> <<>>]

FallbackContext == <<"fallback_policy", "fallback_faq", "fallback_hours">>

ErrorContext == <<"kb_error_passage">>

Suggestion(id, confidence) == [id |-> id, confidence |-> confidence]

(***************************************************************************)
(* runHandoffWorkflow: the stages                                          *)
(***************************************************************************)
\* Step 1.  The catch covers the model call, the parse and the reads of the
\* parsed value (a null payload raises a TypeError on analysis.intent).
AnalyzeQuery(s, out) ==
  LET analysis == ExtractAndParseJson(out) IN
  IF out.kind = "throw" \/ analysis.threw \/ analysis.isNull
  THEN [s EXCEPT !.confidence = 500, !.needsHumanIntervention = FALSE]
  ELSE [s EXCEPT !.confidence = OrElse(analysis.conf, 800),
                 !.needsHumanIntervention = analysis.flag]

\* the early-exit test after step 1
EarlyExit(s) == s.needsHumanIntervention /\ Lt(s.confidence, 300)

\* mutant: the catch forgets to reduce the confidence
RetrieveContext_NoPenalty(s, searchResults) ==
  IF searchResults.kind = "throw"
  THEN [s EXCEPT !.retrievedContext = ErrorContext, !.sources = <<>>]
  ELSE IF Len(searchResults.chunks) > 0
  THEN [s EXCEPT !.retrievedContext = searchResults.chunks,
                 !.sources = searchResults.sources]
  ELSE [s EXCEPT !.retrievedContext = FallbackContext, !.sources = <<>>]

\* Step 2
RetrieveContext(s, searchResults) ==
  IF searchResults.kind = "throw"
  THEN [s EXCEPT !.retrievedContext = ErrorContext,
                 !.sources = <<>>,
                 !.confidence = MathMin(TimesTenths(s.confidence, 7), 500)]
  ELSE IF Len(searchResults.chunks) > 0
  THEN [s EXCEPT !.retrievedContext = searchResults.chunks,
                 !.sources = searchResults.sources]
  ELSE [s EXCEPT !.retrievedContext = FallbackContext, !.sources = <<>>]

\* Math.min(c * 0.6 + g * 0.4, 0.95)
CombinedConfidence(c, g) ==
  MathMin(Plus(TimesTenths(c, 6), TimesTenths(ToNumber(g), 4)), 950)

\* mutant: the catch keeps the confidence of the analysis
GenerateResponse_KeepsConfidence(s, out) ==
  LET aiResponse == ExtractAndParseJson(out) IN
  IF out.kind = "throw" \/ aiResponse.threw \/ aiResponse.isNull
  THEN [s EXCEPT !.finalResponse = <<"generation_failed">>,
                 !.needsHumanIntervention = TRUE]
  ELSE [s EXCEPT !.finalResponse = <<"ai_answer">>,
                 !.confidence = CombinedConfidence(s.confidence, aiResponse.conf),
                 !.needsHumanIntervention =
                     s.needsHumanIntervention \/ aiResponse.flag]

\* Step 3
GenerateResponse(s, out) ==
  LET aiResponse == ExtractAndParseJson(out) IN
  IF out.kind = "throw" \/ aiResponse.threw \/ aiResponse.isNull
  THEN [s EXCEPT !.finalResponse = <<"generation_failed">>,
                 !.confidence = 300,
                 !.needsHumanIntervention = TRUE]
  ELSE [s EXCEPT !.finalResponse = <<"ai_answer">>,
                 !.confidence = CombinedConfidence(s.confidence, aiResponse.conf),
                 !.needsHumanIntervention =
                     s.needsHumanIntervention \/ aiResponse.flag]

\* generateSuggestions: JSON.parse of the raw content, one entry per element
GenerateSuggestions(s, out) ==
  IF out.kind # "json"
  THEN <<Suggestion("fallback_suggestion", 800)>>
  ELSE [i \in 1..Len(out.items) |->
          Suggestion("suggestion_" \o ToString(i - 1), out.items[i])]

\* mutant: the red test looks at the confidence only
DetermineStatus_IgnoresFlag(s, out) ==
  IF Lt(s.confidence, 500)
  THEN [s EXCEPT !.currentStatus = "red",
                 !.suggestions = <<Suggestion("escalate_immediately", 950),
                                   Suggestion("review_context", 800)>>]
  ELSE IF Lt(s.confidence, 700)
  THEN [s EXCEPT !.currentStatus = "yellow",
                 !.suggestions = GenerateSuggestions(s, out)]
  ELSE [s EXCEPT !.currentStatus = "green", !.suggestions = <<>>]

\* mutant: suggestions are generated for every status that is not red
DetermineStatus_AlwaysSuggests(s, out) ==
  IF s.needsHumanIntervention \/ Lt(s.confidence, 500)
  THEN [s EXCEPT !.currentStatus = "red",
                 !.suggestions = <<Suggestion("escalate_immediately", 950),
                                   Suggestion("review_context", 800)>>]
  ELSE [s EXCEPT !.currentStatus = IF Lt(s.confidence, 700) THEN "yellow" ELSE "green",
                 !.suggestions = GenerateSuggestions(s, out)]

\* Step 4.  out is the completion of the suggestions call, which is made on
\* the yellow branch only.
DetermineStatus(s, out) ==
  IF s.needsHumanIntervention \/ Lt(s.confidence, 500)
  THEN [s EXCEPT !.currentStatus = "red",
                 !.suggestions = <<Suggestion("escalate_immediately", 950),
                                   Suggestion("review_context", 800)>>]
  ELSE IF Lt(s.confidence, 700)
  THEN [s EXCEPT !.currentStatus = "yellow",
                 !.suggestions = GenerateSuggestions(s, out)]
  ELSE [s EXCEPT !.currentStatus = "green", !.suggestions = <<>>]

\* whether determineStatus makes the suggestions call
AsksSuggestions(s) ==
  ~(s.needsHumanIntervention \/ Lt(s.confidence, 500)) /\ Lt(s.confidence, 700)

\* Step 5.  A rejected update lands in the catch, which returns the state
\* untouched; an error object is only logged.
HandleHandoff(s, update) ==
  IF update = "throw" THEN s
  ELSE IF s.currentStatus = "red"
  THEN [s EXCEPT !.finalResponse = Append(s.finalResponse, "connecting_human_agent")]
  ELSE s

\* the catch of runHandoffWorkflow
HandoffCatchAll(s) ==
  [s EXCEPT !.currentStatus = "red",
            !.confidence = 0,
            !.finalResponse = <<"technical_difficulties">>,
            !.suggestions = <<Suggestion("error_suggestion", 1000)>>]

(***************************************************************************)
(* runConcurrentWorkflow: the runnables and the continuations              *)
(***************************************************************************)
AnalysisDefault == [isNull |-> FALSE, conf |-> 500, flag |-> FALSE]

\* createAnalysisRunnable: returns whatever JSON.parse returns, null included
AnalysisRunnable(out) ==
  LET parsed == JsonParse(out) IN
  IF out.kind = "throw" \/ parsed.threw THEN AnalysisDefault
  ELSE [isNull |-> parsed.isNull, conf |-> parsed.conf, flag |-> parsed.flag]

\* mutant: an empty search result is passed on as it is
ContextRetrievalRunnable_KeepsEmpty(searchResults) ==
  IF searchResults.kind = "throw"
  THEN [context |-> ErrorContext, sources |-> <<>>]
  ELSE [context |-> searchResults.chunks, sources |-> searchResults.sources]

\* createContextRetrievalRunnable
ContextRetrievalRunnable(searchResults) ==
  IF searchResults.kind = "throw"
  THEN [context |-> ErrorContext, sources |-> <<>>]
  ELSE IF Len(searchResults.chunks) > 0
  THEN [context |-> searchResults.chunks, sources |-> searchResults.sources]
  ELSE [context |-> FallbackContext, sources |-> <<>>]

ResponseDefault ==
  [isNull |-> FALSE, conf |-> 300, flag |-> TRUE, text |-> "generation_failed"]

\* mutant: the catch answers with a middling confidence and no flag
ResponseRunnable_MildDefault(out) ==
  LET parsed == JsonParse(out) IN
  IF out.kind = "throw" \/ parsed.threw
  THEN [ResponseDefault EXCEPT !.conf = 500, !.flag = FALSE]
  ELSE [isNull |-> parsed.isNull, conf |-> parsed.conf, flag |-> parsed.flag,
        text |-> "ai_answer"]

\* responseRunnable
ResponseRunnable(out) ==
  LET parsed == JsonParse(out) IN
  IF out.kind = "throw" \/ parsed.threw THEN ResponseDefault
  ELSE [isNull |-> parsed.isNull, conf |-> parsed.conf, flag |-> parsed.flag,
        text |-> "ai_answer"]

\* whether the suggestions runnable returns [] without calling the model
SkipsSuggestions(confidence) == Gt(confidence, 700)

\* createSuggestionsRunnable; confidence is the value handed over when
\* step 2 is invoked
SuggestionsRunnable(confidence, out) ==
  IF SkipsSuggestions(confidence) THEN <<>>
  ELSE IF out.kind # "json"
  THEN <<Suggestion("fallback_suggestion", 800)>>
  ELSE [i \in 1..Len(out.items) |->
          Suggestion("suggestion_" \o ToString(i - 1), out.items[i])]

NoStep ==
  [analysisDone |-> FALSE, analysis |-> AnalysisDefault,
   contextDone |-> FALSE, context |-> [context |-> <<>>, sources |-> <<>>],
   responseDone |-> FALSE, response |-> ResponseDefault,
   suggestionsDone |-> FALSE, suggestions |-> <<>>]

\* lines 248-254; reading a field of a null analysis throws before any
\* field of the state is assigned
Step1Continuation(s, st) ==
  IF st.analysis.isNull THEN [threw |-> TRUE, state |-> s]
  ELSE [threw |-> FALSE,
        state |-> [s EXCEPT !.confidence = OrElse(st.analysis.conf, 800),
                            !.needsHumanIntervention = st.analysis.flag,
                            !.retrievedContext = st.context.context,
                            !.sources = st.context.sources]]

\* lines 342-357
ConcurrentClassify(s) ==
  IF s.needsHumanIntervention \/ Lt(s.confidence, 500)
  THEN [s EXCEPT !.currentStatus = "red",
                 !.suggestions =
                     IF Len(s.suggestions) = 0
                     THEN <<Suggestion("escalate_immediately", 950)>>
                     ELSE s.suggestions]
  ELSE IF Lt(s.confidence, 700)
  THEN [s EXCEPT !.currentStatus = "yellow"]
  ELSE [s EXCEPT !.currentStatus = "green"]

\* lines 328-357; reading a field of a null response throws first
Step2Continuation(s, st) ==
  IF st.response.isNull THEN [threw |-> TRUE, state |-> s]
  ELSE [threw |-> FALSE,
        state |-> ConcurrentClassify(
          [s EXCEPT !.finalResponse = <<st.response.text>>,
                    !.confidence =
                        MathMin(Plus(TimesTenths(s.confidence, 6),
                                     TimesTenths(ToNumber(st.response.conf), 4)),
                                950),
                    !.needsHumanIntervention =
                        s.needsHumanIntervention \/ st.response.flag,
                    !.suggestions = st.suggestions])]

\* handleConcurrentHandoff: updateConversationStatus rethrows an error
\* object as well as a rejection, and the catch returns the state untouched
HandleConcurrentHandoff(s, update) ==
  IF update # "ok" THEN s
  ELSE IF s.currentStatus = "red"
  THEN [s EXCEPT !.finalResponse = Append(s.finalResponse, "connecting_human_agent")]
  ELSE s

\* mutant: the catch leaves the confidence as it was
ConcurrentCatchAll_KeepsConfidence(s) ==
  [s EXCEPT !.currentStatus = "red",
            !.finalResponse = <<"technical_difficulties">>,
            !.suggestions = <<Suggestion("error_suggestion", 1000)>>]

\* the catch of runConcurrentWorkflow
ConcurrentCatchAll(s) ==
  [s EXCEPT !.currentStatus = "red",
            !.confidence = 0,
            !.finalResponse = <<"technical_difficulties">>,
            !.suggestions = <<Suggestion("error_suggestion", 1000)>>]

\* try { ... } catch: what the workflow function hands to its caller
RunConcurrentTry(r) ==
  [threw |-> FALSE,
   state |-> IF r.threw THEN ConcurrentCatchAll(r.state) ELSE r.state]

\* runHandoffWorkflow's try/catch
RunHandoffTry(r) ==
  [threw |-> FALSE,
   state |-> IF r.threw THEN HandoffCatchAll(r.state) ELSE r.state]

\* processUserMessageWithHandoff / processUserMessageConcurrent
ProcessUserMessage(s) ==
  [response |-> s.finalResponse,
   status |-> s.currentStatus,
   confidence |-> s.confidence,
   suggestions |-> s.suggestions,
   sources |-> s.sources]

(***************************************************************************)
(* LLMPool (concurrent-workflow.ts)                                        *)
(***************************************************************************)
MaxInstances == 5

\* instances is the length of the instances array (handle h is the one
\* pushed at index h); selections, returned, n, caller and warmed record
\* what the calls so far did
InitialPool ==
  [instances |-> 0,
   currentIndex |-> 0,
   selections |-> [h \in 0..(MaxInstances - 1) |-> 0],
   returned |-> -1,
   n |-> 0,
   caller |-> "none",
   warmed |-> 0]

\* mutant: the index is advanced without wrapping around
PoolGetInstance_NoWrap(p) ==
  LET filled == IF p.instances = 0 THEN MaxInstances ELSE p.instances
      h == p.currentIndex
  IN [p EXCEPT !.instances = filled,
               !.currentIndex = h + 1,
               !.returned = IF h < filled THEN h ELSE Undefined,
               !.selections = IF h < filled THEN [@ EXCEPT ![h] = @ + 1] ELSE @,
               !.n = @ + 1]

\* LLMPool.getInstance
PoolGetInstance(p) ==
  LET filled == IF p.instances = 0 THEN MaxInstances ELSE p.instances
      h == p.currentIndex
  IN [p EXCEPT !.instances = filled,
               !.currentIndex = (h + 1) % MaxInstances,
               !.returned = h,
               !.selections = [@ EXCEPT ![h] = @ + 1],
               !.n = @ + 1]

\* LLMPool.warmUp: one invoke per handle the pool holds
PoolWarmUp(p) == [p EXCEPT !.warmed = p.instances]

\* createAnalysisRunnable, createSuggestionsRunnable and responseRunnable
PoolCallers == {"analysis", "suggestions", "response"}

(***************************************************************************)
(* processBatchConversations (concurrent-workflow.ts)                      *)
(***************************************************************************)
ConversationIds == {"conv_a", "conv_b"}

Null == "null"

\* index % maxConcurrency, index counted from 0
SlotOf(index, k) == index % k

\* mutant: checkSlot takes the slot without looking at it
TryAcquire_IgnoresHolder(semaphore, slot, id) ==
  [ok |-> TRUE, semaphore |-> [semaphore EXCEPT ![slot] = id]]

\* checkSlot
TryAcquire(semaphore, slot, id) ==
  IF semaphore[slot] = Null
  THEN [ok |-> TRUE, semaphore |-> [semaphore EXCEPT ![slot] = id]]
  ELSE [ok |-> FALSE, semaphore |-> semaphore]

\* conversations.map(processConversation): every turn runs its first
\* checkSlot synchronously, in the order of the input
AfterMap(ids, k) ==
  LET F[i \in 0..Len(ids)] ==
        IF i = 0
        THEN [semaphore |-> [j \in 0..(k - 1) |-> Null], tpc |-> <<>>]
        ELSE LET t == TryAcquire(F[i - 1].semaphore, SlotOf(i - 1, k), ids[i])
             IN [semaphore |-> t.semaphore,
                 tpc |-> Append(F[i - 1].tpc,
                                IF t.ok THEN "acquired" ELSE "waiting")]
  IN F[Len(ids)]

NoResult == [set |-> FALSE, conversationId |-> "none", state |-> InitialState]

\* phase: idle, running (inside Promise.all) or returned; tpc[i]: where
\* turn i is (waiting for its slot, acquired, running the workflow, done);
\* scn[i]: what the collaborators did in turn i; order: the turns in the
\* order they completed; releases[i]: how often turn i has
\* released its slot
InitialBatch ==
  [phase |-> "idle",
   k |-> 1,
   ids |-> <<>>,
   semaphore |-> [j \in 0..0 |-> Null],
   tpc |-> <<>>,
   results |-> <<>>,
   scn |-> <<>>,
   order |-> <<>>,
   releases |-> <<>>]

\* mutant: the finally block leaves the slot as it is
ReleaseSlot_KeepsHolder(semaphore, slot) == semaphore

\* finally { semaphore[semaphoreIndex] = null }
ReleaseSlot(semaphore, slot) == [semaphore EXCEPT ![slot] = Null]

\* mutant: the result is stored at the first free position
BatchStore_Push(results, i, r) ==
  LET free == {j \in 1..Len(results) : ~results[j].set}
      first == CHOOSE j \in free : \A l \in free : j <= l
  IN [results EXCEPT ![first] = r]

\* results[index] = result
BatchStore(results, i, r) == [results EXCEPT ![i] = r]

\* the collaborators of one turn of a batch
BatchScenarioNames ==
  {"healthy", "model_down", "outage", "null_payload", "low_confidence"}

Scenario(name) ==
  LET json(c) == [kind |-> "json", isNull |-> FALSE, conf |-> c, flag |-> FALSE]
      found == [kind |-> "ok", chunks |-> <<"chunk_a">>, sources |-> <<"doc_1">>]
      down == [NoPayload EXCEPT !.kind = "throw"]
  IN CASE name = "healthy" ->
            [analysis |-> json(800), search |-> found, response |-> json(800),
             suggestions |-> NoSuggestionOutput, persist |-> "unused"]
       [] name = "model_down" ->
            [analysis |-> down, search |-> found, response |-> down,
             suggestions |-> [NoSuggestionOutput EXCEPT !.kind = "throw"],
             persist |-> "ok"]
       [] name = "outage" ->
            [analysis |-> down, search |-> [NoSearch EXCEPT !.kind = "throw"],
             response |-> down,
             suggestions |-> [NoSuggestionOutput EXCEPT !.kind = "throw"],
             persist |-> "throw"]
       [] name = "null_payload" ->
            [analysis |-> [NoPayload EXCEPT !.kind = "json", !.isNull = TRUE],
             search |-> found, response |-> NoPayload,
             suggestions |-> NoSuggestionOutput, persist |-> "unused"]
       [] name = "low_confidence" ->
            [analysis |-> json(500), search |-> found, response |-> json(200),
             suggestions |-> [kind |-> "json", items |-> <<900>>],
             persist |-> "error"]

\* runConcurrentWorkflow from its first line to its return, with the
\* collaborators answering as in scn
RunConcurrentWorkflow(scn) ==
  LET st1 == [NoStep EXCEPT !.analysisDone = TRUE,
                            !.analysis = AnalysisRunnable(scn.analysis),
                            !.contextDone = TRUE,
                            !.context = ContextRetrievalRunnable(scn.search)]
      r1 == Step1Continuation(InitialState, st1)
      st2 == [st1 EXCEPT !.responseDone = TRUE,
                         !.response = ResponseRunnable(scn.response),
                         !.suggestionsDone = TRUE,
                         !.suggestions =
                            SuggestionsRunnable(r1.state.confidence, scn.suggestions)]
      r2 == Step2Continuation(r1.state, st2)
  IN IF r1.threw THEN RunConcurrentTry(r1)
     ELSE IF EarlyExit(r1.state)
     THEN RunConcurrentTry(
            [threw |-> FALSE,
             state |-> HandleConcurrentHandoff(
                         [r1.state EXCEPT !.currentStatus = "red",
                                          !.finalResponse = <<"requires_immediate_human">>],
                         scn.persist)])
     ELSE IF r2.threw THEN RunConcurrentTry(r2)
     ELSE IF r2.state.currentStatus = "red"
     THEN RunConcurrentTry(
            [threw |-> FALSE,
             state |-> HandleConcurrentHandoff(r2.state, scn.persist)])
     ELSE RunConcurrentTry(r2)

\* the catch of processConversation
BatchErrorState ==
  [InitialState EXCEPT !.currentStatus = "red",
                       !.confidence = 0,
                       !.needsHumanIntervention = TRUE,
                       !.finalResponse = <<"error_processing_request">>]

\* what runConcurrentWorkflow hands back under each scenario
ScenarioOutcomes ==
  [name \in BatchScenarioNames |-> RunConcurrentWorkflow(Scenario(name))]

\* try { result = await runConcurrentWorkflow(...) } catch { ... }, with r
\* the outcome of the workflow
ProcessConversation(id, r) ==
  [set |-> TRUE,
   conversationId |-> id,
   state |-> IF r.threw THEN BatchErrorState ELSE r.state]

(***************************************************************************)
(* CacheManager and the cached services (lib/cache)                        *)
(*                                                                         *)
(* A cache key is the sequence of the parts its string has between the     *)
(* colons; ids and hashes hold no colon and no regular-expression          *)
(* metacharacter.  md5 is taken to be free of collisions on the inputs     *)
(* used here.  The store is the set of the entries of all caches; an       *)
(* entry that an LRUCache drops on its own (time to live, size) leaves     *)
(* through the Expire step.                                                *)
(***************************************************************************)
Tenants == {"tenant_a", "tenant_b"}

JsNull == "js_null"

\* what a fetch function or a caller can hand to the cache; origin is the
\* tenant the value was produced for ("none" where no tenant is involved)
CacheData == {JsNull, "row_1"}

NullValue == [origin |-> "none", data |-> JsNull]

Md5(text) == "md5(" \o text \o ")"

\* .digest('hex').substring(0, 8)
Md5Head(text) == "md5_8(" \o text \o ")"

Queries == {"refund", "Refund "}

\* query.toLowerCase().trim()
NormalizeQuery(q) == IF q = "Refund " THEN "refund" ELSE q

\* JSON.stringify(options)
SearchOptions == {"{}"}

\* context.join('')
ResponseContexts == {"passage_1"}

ConversationOwner == [k \in {"conv_1", "conv_2"} |->
                        IF k = "conv_1" THEN "tenant_a" ELSE "tenant_b"]

Pages == {<<"50", "0">>, <<"20", "0">>}

Users == {"user_1", "user_2"}

\* createSearchCacheKey
SearchCacheKey(query, companyId, options) ==
  <<"search", companyId, Md5(query \o companyId \o options)>>

DocumentsCacheKey(companyId) == <<"documents", companyId>>

MessagesCacheKey(conversationId, page) ==
  <<"conversation_messages", conversationId, page[1], page[2]>>

StatsCacheKey(companyId) == <<"conversations_stats", companyId, "all", "50", "0">>

\* createResponseCacheKey
\* mutant: the key leaves the company out
ResponseCacheKey_NoTenant(query, companyId, context) ==
  <<"ai_response", "any", Md5Head(NormalizeQuery(query)), Md5Head(context)>>

ResponseCacheKey(query, companyId, context) ==
  <<"ai_response", companyId, Md5Head(NormalizeQuery(query)), Md5Head(context)>>

UserCompanyCacheKey(userId) == <<"user_company", userId>>

\* the entries of cache cacheName under key
Lookup(store, cacheName, key) ==
  {e \in store : e.cache = cacheName /\ e.key = key}

HasEntry(store, cacheName, key) == Lookup(store, cacheName, key) # {}

\* CacheManager.get: entry.data, or null when there is no entry
CacheGet(store, cacheName, key) ==
  IF HasEntry(store, cacheName, key)
  THEN (CHOOSE e \in Lookup(store, cacheName, key) : TRUE).value
  ELSE NullValue

\* CacheManager.set
CacheSet(store, cacheName, key, value) ==
  (store \ Lookup(store, cacheName, key))
    \cup {[cache |-> cacheName, key |-> key, value |-> value]}

\* CacheManager.delete
CacheDelete(store, cacheName, key) == store \ Lookup(store, cacheName, key)

\* cached !== null in getOrSet
IsCacheHit(store, cacheName, key) ==
  CacheGet(store, cacheName, key).data # JsNull

\* new RegExp(`^(head|...):${id}:`).test(key): the first part is one of
\* heads, the second part is id and a colon follows it
MatchesScoped(heads, id, key) ==
  Len(key) >= 3 /\ key[1] \in heads /\ key[2] = id

\* CacheManager.invalidatePattern with such a pattern
InvalidatePattern(store, cacheName, heads, id) ==
  store \ {e \in store : e.cache = cacheName /\ MatchesScoped(heads, id, e.key)}

\* CachedKnowledgeBaseService.invalidateCompanyCache
InvalidateCompanyCache(store, companyId) ==
  InvalidatePattern(store, "KNOWLEDGE_BASE", {"search", "documents"}, companyId)

\* CachedConversationService.invalidateConversationCache with a companyId
InvalidateConversationCache(store, conversationId, companyId) ==
  InvalidatePattern(
    CacheDelete(store, "CONVERSATIONS", <<"conversation_messages", conversationId>>),
    "CONVERSATIONS", {"conversations_stats"}, companyId)

NoLookup ==
  [op |-> "none", tenant |-> "none", cache |-> "none", key |-> <<>>,
   outcome |-> "none", value |-> NullValue]

\* store: the entries; pending: the getOrSet calls that await their fetch
\* function; fetches: the fetch invocations counted per cache and key
\* since an entry of that key was last removed or its fetch last failed;
\* calls: the service calls made so far; last: the lookup that completed
\* last
InitialCache ==
  [store |-> {}, pending |-> <<>>, fetches |-> <<>>, calls |-> 0,
   last |-> NoLookup]

\* how often the fetch function of (cacheName, key) is counted in log
FetchCount(log, cacheName, key) ==
  Cardinality({i \in 1..Len(log) : log[i] = <<cacheName, key>>})

\* log without the invocations counted for the keys in removed
ForgetFetches(log, removed) ==
  SelectSeq(log, LAMBDA f : f \notin removed)

\* log without one invocation of (cacheName, key)
ForgetOneFetch(log, cacheName, key) ==
  IF FetchCount(log, cacheName, key) = 0
  THEN log
  ELSE LET i == CHOOSE j \in 1..Len(log) : log[j] = <<cacheName, key>>
       IN SubSeq(log, 1, i - 1) \o SubSeq(log, i + 1, Len(log))

\* the cache after entries have been dropped from its store
WithStore(c, newStore) ==
  [c EXCEPT !.store = newStore,
            !.fetches = ForgetFetches(@, {<<e.cache, e.key>> : e \in c.store \ newStore})]

\* getOrSet up to its await: the lookup, and on a miss the call of the
\* fetch function
GetOrSetBegin(c, tenant, cacheName, key) ==
  IF IsCacheHit(c.store, cacheName, key)
  THEN [c EXCEPT !.calls = @ + 1,
                 !.last = [op |-> "getOrSet", tenant |-> tenant,
                           cache |-> cacheName, key |-> key, outcome |-> "hit",
                           value |-> CacheGet(c.store, cacheName, key)]]
  ELSE [c EXCEPT !.calls = @ + 1,
                 !.pending = Append(@, [tenant |-> tenant, cache |-> cacheName,
                                        key |-> key]),
                 !.fetches = Append(@, <<cacheName, key>>)]

\* getOrSet after its await: the fetched value is stored and returned
GetOrSetResolve(c, i, data) ==
  LET call == c.pending[i]
      value == [origin |-> call.tenant, data |-> data]
  IN [c EXCEPT !.store = CacheSet(@, call.cache, call.key, value),
               !.pending = SubSeq(@, 1, i - 1) \o SubSeq(@, i + 1, Len(@)),
               !.last = [op |-> "getOrSet", tenant |-> call.tenant,
                         cache |-> call.cache, key |-> call.key,
                         outcome |-> "fetched", value |-> value]]

\* getOrSet after its await: the fetch function rejected, the catch rethrows
GetOrSetThrow(c, i) ==
  LET call == c.pending[i]
  IN [c EXCEPT !.pending = SubSeq(@, 1, i - 1) \o SubSeq(@, i + 1, Len(@)),
               !.fetches = ForgetOneFetch(@, call.cache, call.key),
               !.last = [op |-> "getOrSet", tenant |-> call.tenant,
                         cache |-> call.cache, key |-> call.key,
                         outcome |-> "error", value |-> NullValue]]

(***************************************************************************)
(* The chat route (app/api/chat/route.ts)                                  *)
(***************************************************************************)
\* conversation ids a caller may send; the last three are UUIDs as the
\* caller's system makes them (version 4, version 4 in upper case, version 7)
SuppliedConversationIds ==
  {"", "default", "test-company", "ticket-17",
   "uuid_v4_x", "UUID_V4_Y", "uuid_v7_z"}

\* /^[0-9a-f]{8}-[0-9a-f]{4}-[1-5][0-9a-f]{3}-[89ab][0-9a-f]{3}-[0-9a-f]{12}$/i
IsValidUUID(id) == id \in {"uuid_v4_x", "UUID_V4_Y"}

\* what uuidv4() returns
FreshUuids == {"uuid_new_1", "uuid_new_2"}

\* !message || !conversationId
IsRejected(message, conversationId) == message = "" \/ conversationId = ""

\* lines 28-33
ValidConversationId(conversationId, fresh) ==
  IF conversationId = "default" \/ conversationId = "test-company"
     \/ ~IsValidUUID(conversationId)
  THEN fresh ELSE conversationId

\* the company_id of the session's user; "undefined" without a session
SessionCompanyIds == {"undefined", "default", "company_1"}

\* lines 66-71
ValidCompanyId(companyId, fresh) ==
  IF companyId = "undefined" \/ companyId = "default" THEN fresh ELSE companyId

\* supplied: the conversationId of the request body; workflowId and
\* workflowCompany: the arguments of processUserMessageWithHandoff;
\* persistedId: the conversation whose status the handoff step updated;
\* httpStatus and bodyId: the response
InitialRoute ==
  [phase |-> "idle", supplied |-> "none", workflowId |-> "none",
   workflowCompany |-> "none", persistedId |-> "none", httpStatus |-> 0,
   bodyId |-> "none", turnStatus |-> "none"]

(***************************************************************************)
(* One turn as a state machine                                             *)
(*   variant  which workflow runs the turn                                 *)
(*   pc       the await the turn is suspended at                           *)
(*   state    the workflow state object                                    *)
(*   step     the results of the parallel runnables (concurrent workflow)  *)
(*   obs      what each collaborator answered in this turn                 *)
(*   calls    how often each collaborator was invoked in this turn         *)
(*   path     the return statement the turn left through                   *)
(*   escaped  an exception reached the caller of processUserMessage...     *)
(***************************************************************************)
NoObs ==
  [analysis |-> NoPayload, search |-> NoSearch, response |-> NoPayload,
   suggestions |-> NoSuggestionOutput, persist |-> "unused"]

NoCalls ==
  [analysis |-> 0, search |-> 0, response |-> 0, suggestions |-> 0, persist |-> 0]

Init ==
  /\ variant = "handoff"
  /\ pc = "idle"
  /\ state = InitialState
  /\ step = NoStep
  /\ obs = NoObs
  /\ calls = NoCalls
  /\ path = "none"
  /\ escaped = FALSE
  /\ pool = InitialPool
  /\ batch = InitialBatch
  /\ cache = InitialCache
  /\ route = InitialRoute

\* a message enters processUserMessageWithHandoff or
\* processUserMessageConcurrent
Start(v) ==
  /\ pc \in {"idle", "done"}
  /\ variant' = v
  /\ pc' = IF v = "handoff" THEN "analyze" ELSE "step1"
  /\ state' = InitialState
  /\ step' = NoStep
  /\ obs' = NoObs
  /\ calls' = NoCalls
  /\ path' = "none"
  /\ escaped' = FALSE
  /\ UNCHANGED <<cache, route, pool, batch>>

\* analyzeQuery resolves; the early-exit test runs in the same turn of the
\* event loop
H_AnalyzeQuery ==
  /\ variant = "handoff" /\ pc = "analyze"
  /\ \E out \in ModelOutputs :
       LET s1 == AnalyzeQuery(state, out) IN
       /\ obs' = [obs EXCEPT !.analysis = out]
       /\ calls' = [calls EXCEPT !.analysis = @ + 1]
       /\ IF EarlyExit(s1)
          THEN /\ state' = [s1 EXCEPT !.currentStatus = "red",
                                      !.finalResponse = <<"requires_immediate_human">>]
               /\ pc' = "handoff"
               /\ path' = "early"
          ELSE /\ state' = s1
               /\ pc' = "retrieve"
               /\ path' = path
  /\ UNCHANGED <<cache, route, pool, batch, variant, step, escaped>>

H_RetrieveContext ==
  /\ variant = "handoff" /\ pc = "retrieve"
  /\ \E searchResults \in SearchOutcomes :
       /\ state' = RetrieveContext(state, searchResults)
       /\ obs' = [obs EXCEPT !.search = searchResults]
  /\ calls' = [calls EXCEPT !.search = @ + 1]
  /\ pc' = "generate"
  /\ UNCHANGED <<cache, route, pool, batch, variant, step, path, escaped>>

H_GenerateResponse ==
  /\ variant = "handoff" /\ pc = "generate"
  /\ \E out \in ModelOutputs :
       /\ state' = GenerateResponse(state, out)
       /\ obs' = [obs EXCEPT !.response = out]
  /\ calls' = [calls EXCEPT !.response = @ + 1]
  /\ pc' = "status"
  /\ UNCHANGED <<cache, route, pool, batch, variant, step, path, escaped>>

\* determineStatus, with the suggestions call on its yellow branch, and the
\* return of runHandoffWorkflow when the status is not red
H_DetermineStatus ==
  /\ variant = "handoff" /\ pc = "status"
  /\ \E out \in IF AsksSuggestions(state) THEN SuggestionOutputs
                ELSE {NoSuggestionOutput} :
       LET s1 == DetermineStatus(state, out)
           r == RunHandoffTry([threw |-> FALSE, state |-> s1]) IN
       /\ state' = r.state
       /\ escaped' = r.threw
       /\ obs' = [obs EXCEPT !.suggestions = out]
       /\ pc' = IF s1.currentStatus = "red" THEN "handoff" ELSE "done"
  /\ calls' = [calls EXCEPT !.suggestions =
                 IF AsksSuggestions(state) THEN @ + 1 ELSE @]
  /\ path' = "normal"
  /\ UNCHANGED <<cache, route, pool, batch, variant, step>>

\* handleHandoff, reached from the early exit and from a red classification
H_HandleHandoff ==
  /\ variant = "handoff" /\ pc = "handoff"
  /\ \E update \in PersistOutcomes :
       LET r == RunHandoffTry([threw |-> FALSE,
                               state |-> HandleHandoff(state, update)]) IN
       /\ state' = r.state
       /\ escaped' = r.threw
       /\ obs' = [obs EXCEPT !.persist = update]
  /\ calls' = [calls EXCEPT !.persist = @ + 1]
  /\ pc' = "done"
  /\ UNCHANGED <<cache, route, pool, batch, variant, step, path>>

\* the analysis runnable of parallelStep1 resolves
C_Analysis ==
  /\ variant = "concurrent" /\ pc = "step1" /\ ~step.analysisDone
  /\ \E out \in ModelOutputs :
       /\ step' = [step EXCEPT !.analysisDone = TRUE,
                               !.analysis = AnalysisRunnable(out)]
       /\ obs' = [obs EXCEPT !.analysis = out]
  /\ calls' = [calls EXCEPT !.analysis = @ + 1]
  /\ UNCHANGED <<cache, route, pool, batch, variant, pc, state, path, escaped>>

\* the context runnable of parallelStep1 resolves
C_ContextRetrieval ==
  /\ variant = "concurrent" /\ pc = "step1" /\ ~step.contextDone
  /\ \E searchResults \in SearchOutcomes :
       /\ step' = [step EXCEPT !.contextDone = TRUE,
                               !.context = ContextRetrievalRunnable(searchResults)]
       /\ obs' = [obs EXCEPT !.search = searchResults]
  /\ calls' = [calls EXCEPT !.search = @ + 1]
  /\ UNCHANGED <<cache, route, pool, batch, variant, pc, state, path, escaped>>

\* parallelStep1.invoke resolves: lines 248-265
C_Step1Join ==
  /\ variant = "concurrent" /\ pc = "step1"
  /\ step.analysisDone /\ step.contextDone
  /\ LET r1 == Step1Continuation(state, step) IN
     IF r1.threw
     THEN LET r == RunConcurrentTry(r1) IN
          /\ state' = r.state
          /\ escaped' = r.threw
          /\ pc' = "done"
          /\ path' = "catchall"
     ELSE IF EarlyExit(r1.state)
     THEN /\ state' = [r1.state EXCEPT !.currentStatus = "red",
                                       !.finalResponse = <<"requires_immediate_human">>]
          /\ pc' = "handoff"
          /\ path' = "early"
          /\ escaped' = escaped
     ELSE /\ state' = r1.state
          /\ pc' = "step2"
          /\ path' = path
          /\ escaped' = escaped
  /\ UNCHANGED <<cache, route, pool, batch, variant, step, obs, calls>>

\* the response runnable of parallelStep2 resolves
C_Response ==
  /\ variant = "concurrent" /\ pc = "step2" /\ ~step.responseDone
  /\ \E out \in ModelOutputs :
       /\ step' = [step EXCEPT !.responseDone = TRUE,
                               !.response = ResponseRunnable(out)]
       /\ obs' = [obs EXCEPT !.response = out]
  /\ calls' = [calls EXCEPT !.response = @ + 1]
  /\ UNCHANGED <<cache, route, pool, batch, variant, pc, state, path, escaped>>

\* the suggestions runnable of parallelStep2 resolves; its input carries
\* the confidence the state had when step 2 was invoked
C_Suggestions ==
  /\ variant = "concurrent" /\ pc = "step2" /\ ~step.suggestionsDone
  /\ \E out \in IF SkipsSuggestions(state.confidence) THEN {NoSuggestionOutput}
                ELSE SuggestionOutputs :
       /\ step' = [step EXCEPT !.suggestionsDone = TRUE,
                               !.suggestions = SuggestionsRunnable(state.confidence, out)]
       /\ obs' = [obs EXCEPT !.suggestions = out]
  /\ calls' = [calls EXCEPT !.suggestions =
                 IF SkipsSuggestions(state.confidence) THEN @ ELSE @ + 1]
  /\ UNCHANGED <<cache, route, pool, batch, variant, pc, state, path, escaped>>

\* parallelStep2.invoke resolves: lines 328-367
C_Step2Join ==
  /\ variant = "concurrent" /\ pc = "step2"
  /\ step.responseDone /\ step.suggestionsDone
  /\ LET r2 == Step2Continuation(state, step)
         r == RunConcurrentTry(r2) IN
     /\ state' = r.state
     /\ escaped' = r.threw
     /\ path' = IF r2.threw THEN "catchall" ELSE "normal"
     /\ pc' = IF ~r2.threw /\ r2.state.currentStatus = "red"
              THEN "handoff" ELSE "done"
  /\ UNCHANGED <<cache, route, pool, batch, variant, step, obs, calls>>

\* handleConcurrentHandoff, reached from the early exit and from a red
\* classification
C_HandleHandoff ==
  /\ variant = "concurrent" /\ pc = "handoff"
  /\ \E update \in PersistOutcomes :
       LET r == RunConcurrentTry([threw |-> FALSE,
                                  state |-> HandleConcurrentHandoff(state, update)]) IN
       /\ state' = r.state
       /\ escaped' = r.threw
       /\ obs' = [obs EXCEPT !.persist = update]
  /\ calls' = [calls EXCEPT !.persist = @ + 1]
  /\ pc' = "done"
  /\ UNCHANGED <<cache, route, pool, batch, variant, step, path>>

Next ==
  \/ \E v \in {"handoff", "concurrent"} : Start(v)
  \/ H_AnalyzeQuery
  \/ H_RetrieveContext
  \/ H_GenerateResponse
  \/ H_DetermineStatus
  \/ H_HandleHandoff
  \/ C_Analysis
  \/ C_ContextRetrieval
  \/ C_Step1Join
  \/ C_Response
  \/ C_Suggestions
  \/ C_Step2Join
  \/ C_HandleHandoff

Spec == Init /\ [][Next]_vars

(***************************************************************************)
(* The result of a finished turn                                           *)
(***************************************************************************)
Returned == pc = "done"

Result == ProcessUserMessage(state)

TypeOK ==
  /\ variant \in {"handoff", "concurrent", "simple"}
  /\ pc \in {"idle", "analyze", "retrieve", "generate", "status", "handoff",
             "step1", "step2", "s_analyze", "s_retrieve", "s_generate",
             "s_suggest", "done"}
  /\ state.currentStatus \in {"green", "yellow", "red"}
  /\ path \in {"none", "early", "normal", "catchall"}
  /\ escaped \in BOOLEAN

(***************************************************************************)
(* What the stages reported in the turn                                    *)
(***************************************************************************)
\* the analysis payload was read as a structured payload by the workflow
AnalysisReported ==
  /\ calls.analysis > 0
  /\ ~obs.analysis.isNull
  /\ IF variant = "handoff" THEN obs.analysis.kind \in {"json", "fenced"}
     ELSE obs.analysis.kind = "json"

\* the response payload was read as a structured payload by the workflow
ResponseReported ==
  /\ calls.response > 0
  /\ ~obs.response.isNull
  /\ IF variant = "handoff" THEN obs.response.kind \in {"json", "fenced"}
     ELSE obs.response.kind = "json"

AnalyzerFlag == AnalysisReported /\ obs.analysis.flag

GeneratorFlag == ResponseReported /\ obs.response.flag

(***************************************************************************)
(* Claims                                                                  *)
(***************************************************************************)
\* C1: every returned result, on the normal, the early-exit and the
\* catch-all path of both workflows, has status red whenever its confidence
\* is below 0.5 or the analyzer or the generator raised a human-needed flag.
C1_RedWhenLowOrFlagged ==
  Returned =>
    ((Lt(Result.confidence, 500) \/ AnalyzerFlag \/ GeneratorFlag)
       => Result.status = "red")

\* a flagged turn with a high confidence, classified on the normal path
C1_Witness ==
  /\ Returned /\ path = "normal"
  /\ AnalyzerFlag /\ Gt(Result.confidence, 700)
  /\ Result.status = "red"

\* C2: every returned result whose status is yellow or red carries at least
\* one suggestion.
C2_SuggestionsWhenYellowOrRed ==
  Returned /\ Result.status \in {"yellow", "red"}
    => Len(Result.suggestions) >= 1

\* C3: every result of processUserMessageWithHandoff whose status is green
\* has an empty suggestions list.
C3_GreenHasNoSuggestions ==
  Returned /\ variant = "handoff" /\ Result.status = "green"
    => Result.suggestions = <<>>

C3_Witness ==
  /\ Returned /\ variant = "handoff" /\ Result.status = "green"
  /\ calls.response = 1

\* C4: the confidence of every returned result is a number in [0, 1].
C4_ConfidenceInUnitInterval ==
  Returned =>
    /\ IsNumber(Result.confidence)
    /\ Result.confidence >= 0
    /\ Result.confidence <= 1000

\* C5: in runHandoffWorkflow, when the analyzer reports the human-needed flag
\* together with an aiConfidence in [0, 0.3), retrieval and response
\* generation are never invoked and the turn returns red with the fixed
\* 'requires immediate human assistance' message.
C5_EarlyExitSkipsRetrievalAndGeneration ==
  ( /\ variant = "handoff"
    /\ AnalyzerFlag
    /\ IsNumber(obs.analysis.conf)
    /\ obs.analysis.conf >= 0 /\ obs.analysis.conf < 300 )
  => /\ calls.search = 0
     /\ calls.response = 0
     /\ Returned =>
          /\ Result.status = "red"
          /\ Head(Result.response) = "requires_immediate_human"

\* C6: no exception reaches the caller of either entry point, and a turn
\* that leaves through the catch-all returns exactly red, confidence 0.0,
\* the 'technical difficulties' text and one suggestion of confidence 1.0.
C6_NoEscapeAndExactFallback ==
  /\ ~escaped
  /\ Returned /\ path = "catchall" =>
       /\ Result.status = "red"
       /\ Result.confidence = 0
       /\ Result.response = <<"technical_difficulties">>
       /\ Len(Result.suggestions) = 1
       /\ Result.suggestions[1].confidence = 1000

\* a model payload that is the JSON literal null took the turn to the catch
C6_Witness == Returned /\ path = "catchall"

\* C7 as stated: when the analysis and the generation call both throw,
\* processUserMessageWithHandoff returns red, confidence 0.0 and exactly one
\* suggestion of confidence 1.0.
C7_OutageGivesCatchAllResult ==
  ( /\ Returned /\ variant = "handoff"
    /\ obs.analysis.kind = "throw" /\ obs.response.kind = "throw"
    /\ obs.suggestions.kind \in {"unused", "throw"} )
  => /\ ~escaped
     /\ Result.status = "red"
     /\ Result.confidence = 0
     /\ Len(Result.suggestions) = 1
     /\ Result.suggestions[1].confidence = 1000

\* C7 amended: when every model call of the turn throws,
\* processUserMessageWithHandoff returns red with confidence 0.3 and the two
\* fixed escalation suggestions (confidence 0.95 and 0.8), and no exception
\* escapes.
C7_OutageGivesStageFallbacks ==
  ( /\ Returned /\ variant = "handoff"
    /\ obs.analysis.kind = "throw" /\ obs.response.kind = "throw"
    /\ obs.suggestions.kind \in {"unused", "throw"} )
  => /\ ~escaped
     /\ Result.status = "red"
     /\ Result.confidence = 300
     /\ Len(Result.suggestions) = 2
     /\ Result.suggestions[1].confidence = 950
     /\ Result.suggestions[2].confidence = 800

C7_Witness ==
  /\ Returned /\ variant = "handoff"
  /\ obs.analysis.kind = "throw" /\ obs.response.kind = "throw"
  /\ obs.search.kind = "throw"

\* C8: on the normal path of runHandoffWorkflow the status is red if
\* needsHumanIntervention or confidence < 0.5, otherwise yellow if
\* confidence < 0.7, otherwise green; green only with confidence >= 0.7 and
\* no human-needed flag; 0.5 is yellow and 0.7 is green.
C8_StatusIsFunctionOfConfidence ==
  ( Returned /\ variant = "handoff" /\ path = "normal" ) =>
    LET c == Result.confidence
        flagged == state.needsHumanIntervention IN
    /\ (flagged \/ Lt(c, 500)) => Result.status = "red"
    /\ (~flagged /\ ~Lt(c, 500) /\ Lt(c, 700)) => Result.status = "yellow"
    /\ (~flagged /\ ~Lt(c, 500) /\ ~Lt(c, 700)) => Result.status = "green"
    /\ Result.status = "green" =>
         /\ IsNumber(c) /\ c >= 700
         /\ ~AnalyzerFlag /\ ~GeneratorFlag
    /\ (c = 500 /\ ~flagged) => Result.status = "yellow"
    /\ (c = 700 /\ ~flagged) => Result.status = "green"

\* the confidences a and g that the two payloads carried
ReportedA == obs.analysis.conf

ReportedG == obs.response.conf

\* both model calls succeeded and reported a number, no early exit
C9_Case ==
  /\ Returned /\ variant = "handoff" /\ path = "normal"
  /\ AnalysisReported /\ IsNumber(ReportedA)
  /\ ResponseReported /\ IsNumber(ReportedG)

\* C9 as stated: the returned confidence is min(0.6 a + 0.4 g, 0.95),
\* whatever the retrieval outcome.
C9_BlendOfReported ==
  C9_Case =>
    LET blend == (6 * ReportedA + 4 * ReportedG) \div 10 IN
    Result.confidence = IF blend < 950 THEN blend ELSE 950

\* C9 amended: the returned confidence is min(0.6 c + 0.4 g, 0.95), where c
\* is the analyzer confidence the turn adopted: a, or 0.8 when a is 0, and,
\* when the retrieval call failed, that value reduced to min(0.7 c, 0.5).
C9_BlendOfAdopted ==
  C9_Case =>
    LET a0 == IF ReportedA = 0 THEN 800 ELSE ReportedA
        reduced == IF 7 * a0 < 5000 THEN (7 * a0) \div 10 ELSE 500
        c == IF obs.search.kind = "throw" THEN reduced ELSE a0
        blend == (6 * c + 4 * ReportedG) \div 10 IN
    Result.confidence = IF blend < 950 THEN blend ELSE 950

\* both payloads reported 0.8 and the retrieval call failed
C9_Witness ==
  /\ C9_Case
  /\ obs.search.kind = "throw"
  /\ ReportedA = 800 /\ ReportedG = 800

\* C10: the conversation-status update is invoked during a turn if and only
\* if the turn returns red, and then exactly once.
C10_PersistIffRed ==
  Returned =>
    /\ Result.status = "red" => calls.persist = 1
    /\ Result.status # "red" => calls.persist = 0

(***************************************************************************)
(* The handoff step applied again to a state it has already handled        *)
(***************************************************************************)
\* applications of the handoff step to one state
MaxHandoffApplications == 2

\* handleHandoff applied to the red state a turn returned
H_ReapplyHandoff ==
  /\ variant = "handoff" /\ pc = "done"
  /\ path \in {"early", "normal"} /\ state.currentStatus = "red"
  /\ calls.persist < MaxHandoffApplications
  /\ \E update \in PersistOutcomes :
       /\ state' = HandleHandoff(state, update)
       /\ obs' = [obs EXCEPT !.persist = update]
  /\ calls' = [calls EXCEPT !.persist = @ + 1]
  /\ UNCHANGED <<cache, route, pool, batch, variant, pc, step, path, escaped>>

\* handleConcurrentHandoff applied to the red state a turn returned
C_ReapplyHandoff ==
  /\ variant = "concurrent" /\ pc = "done"
  /\ path \in {"early", "normal"} /\ state.currentStatus = "red"
  /\ calls.persist < MaxHandoffApplications
  /\ \E update \in PersistOutcomes :
       /\ state' = HandleConcurrentHandoff(state, update)
       /\ obs' = [obs EXCEPT !.persist = update]
  /\ calls' = [calls EXCEPT !.persist = @ + 1]
  /\ UNCHANGED <<cache, route, pool, batch, variant, pc, step, path, escaped>>

NextReapply == Next \/ H_ReapplyHandoff \/ C_ReapplyHandoff

SpecReapply == Init /\ [][NextReapply]_vars

\* occurrences of the 'connecting you with a human agent' sentence
CountHandoffSentence(text) ==
  Cardinality({i \in 1..Len(text) : text[i] = "connecting_human_agent"})

\* C11: appending the 'connecting you with a human agent' sentence is
\* idempotent: however often the handoff step has been applied to a red
\* state, the response contains the sentence at most once.
C11_HandoffSentenceAtMostOnce ==
  Returned => CountHandoffSentence(Result.response) <= 1

\* the analysis call threw or its output is no structured payload for the
\* workflow that read it
AnalysisUnstructured ==
  /\ calls.analysis > 0
  /\ \/ obs.analysis.kind \in {"throw", "garbage"}
     \/ obs.analysis.isNull
     \/ variant = "concurrent" /\ obs.analysis.kind = "fenced"

\* C16: when the analysis model call throws or its output is no structured
\* payload, the turn goes on with analyzer confidence 0.5 and no
\* human-needed flag and reaches retrieval; the analysis failure leads
\* neither to the early exit nor to the catch-all (which only a later
\* stage may still cause), and nothing is thrown to the caller.
C16_AnalysisFailsSoft ==
  AnalysisUnstructured =>
    /\ ~escaped
    /\ path # "early"
    /\ path = "catchall" => calls.response = 1
    /\ pc \in {"retrieve", "step2"} =>
         state.confidence = 500 /\ ~state.needsHumanIntervention
    /\ Returned => calls.search = 1

\* C17: after the analysis fallback (0.5, no flag) runHandoffWorkflow never
\* returns green, for every generator confidence in [0, 1] and every
\* retrieval outcome; and with a generator confidence of at least 0.5, no
\* generator flag and a retrieval that did not fail, it returns yellow.
C17_AnalysisFallbackNeverGreen ==
  ( /\ Returned /\ variant = "handoff" /\ path = "normal"
    /\ AnalysisUnstructured
    /\ ResponseReported /\ IsNumber(ReportedG)
    /\ ReportedG >= 0 /\ ReportedG <= 1000 )
  => /\ Result.status # "green"
     /\ ( ReportedG >= 500 /\ ~obs.response.flag /\ obs.search.kind = "ok" )
          => Result.status = "yellow"

\* C20: the suggestions list of every result has at most 3 entries and
\* their ids are pairwise distinct.
C20_AtMostThreeDistinctSuggestions ==
  Returned =>
    /\ Len(Result.suggestions) <= 3
    /\ \A i, j \in 1..Len(Result.suggestions) :
         i # j => Result.suggestions[i].id # Result.suggestions[j].id

(***************************************************************************)
(* The simple workflow (workflow.ts processUserMessage)                    *)
(***************************************************************************)
MockContext ==
  <<"mock_policy", "mock_faq", "mock_password", "mock_hours", "mock_escalation">>

\* the entries of mockContext that share a keyword with the user query
KeywordMatches == {{}, {2}, {1, 4}, 1..5}

\* mockContext.filter(...), in the order of mockContext
FilterMock(matched) ==
  LET F[i \in 0..Len(MockContext)] ==
        IF i = 0 THEN <<>>
        ELSE IF i \in matched THEN Append(F[i - 1], MockContext[i])
        ELSE F[i - 1]
  IN F[Len(MockContext)]

\* relevantContext.length > 0 ? relevantContext : mockContext.slice(0, 3)
SimpleFallbackContext(matched) ==
  IF Len(FilterMock(matched)) > 0 THEN FilterMock(matched)
  ELSE SubSeq(MockContext, 1, 3)

SimpleErrorContext == <<"kb_trouble_accessing", "contact_support", "support_hours">>

\* c.includes("trouble accessing")
IncludesTroubleAccessing(passage) == passage = "kb_trouble_accessing"

\* the response model call of the simple workflow: it rejects, or resolves
\* with a free text that does or does not say "not sure" / "don't know"
SimpleResponseOutputs ==
  {[NoPayload EXCEPT !.kind = k] : k \in {"throw", "text", "text_not_sure"}}

\* analyzeQuery of workflow.ts: needsHuman of the payload, false on failure
SimpleAnalyzeQuery(s, out) ==
  LET analysis == JsonParse(out) IN
  IF out.kind = "throw" \/ analysis.threw \/ analysis.isNull
  THEN [s EXCEPT !.needsHumanIntervention = FALSE]
  ELSE [s EXCEPT !.needsHumanIntervention = analysis.flag]

\* retrieveContext of workflow.ts
SimpleRetrieveContext(s, hasCompany, searchResults, matched) ==
  IF hasCompany /\ searchResults.kind = "throw"
  THEN [s EXCEPT !.retrievedContext = SimpleErrorContext, !.sources = <<>>]
  ELSE IF hasCompany /\ Len(searchResults.chunks) > 0
  THEN [s EXCEPT !.retrievedContext = searchResults.chunks,
                 !.sources = searchResults.sources]
  ELSE [s EXCEPT !.retrievedContext = SimpleFallbackContext(matched),
                 !.sources = <<>>]

\* the confidence generateResponse of workflow.ts derives from the answer
\* text, the passages and the sources
SimpleConfidence(out, context, sources) ==
  LET c1 == IF out.kind = "text_not_sure" THEN 600 ELSE 800
      c2 == IF Len(context) = 0
               \/ \E i \in 1..Len(context) : IncludesTroubleAccessing(context[i])
            THEN 500 ELSE c1
  IN IF Len(sources) > 0 THEN MathMin(c2 + 100, 950) ELSE c2

\* generateResponse of workflow.ts
SimpleGenerateResponse(s, out) ==
  IF out.kind = "throw"
  THEN [s EXCEPT !.finalResponse = <<"generation_failed">>, !.confidence = 300]
  ELSE [s EXCEPT !.finalResponse = <<"ai_answer">>,
                 !.confidence = SimpleConfidence(out, s.retrievedContext, s.sources)]

\* Step 4 of processUserMessage
SimpleStatus(needsHuman, confidence) ==
  IF confidence < 500 THEN "red"
  ELSE IF needsHuman \/ confidence < 700 THEN "yellow"
  ELSE "green"

SimpleSkipsSuggestions(confidence) == confidence > 800

SimpleDefaultSuggestions ==
  <<Suggestion("suggestion_0", 700), Suggestion("suggestion_1", 800),
    Suggestion("suggestion_2", 800)>>

\* generateSuggestions of workflow.ts
SimpleGenerateSuggestions(confidence, out) ==
  IF SimpleSkipsSuggestions(confidence) THEN <<>>
  ELSE IF out.kind # "json"
  THEN SimpleDefaultSuggestions
  ELSE [i \in 1..Len(out.items) |->
          Suggestion("suggestion_" \o ToString(i - 1), out.items[i])]

\* a message enters processUserMessage
S_Start ==
  /\ pc \in {"idle", "done"}
  /\ variant' = "simple"
  /\ pc' = "s_analyze"
  /\ state' = InitialState
  /\ step' = NoStep
  /\ obs' = NoObs
  /\ calls' = NoCalls
  /\ path' = "none"
  /\ escaped' = FALSE
  /\ UNCHANGED <<cache, route, pool, batch>>

S_AnalyzeQuery ==
  /\ variant = "simple" /\ pc = "s_analyze"
  /\ \E out \in ModelOutputs :
       /\ state' = SimpleAnalyzeQuery(state, out)
       /\ obs' = [obs EXCEPT !.analysis = out]
  /\ calls' = [calls EXCEPT !.analysis = @ + 1]
  /\ pc' = "s_retrieve"
  /\ UNCHANGED <<cache, route, pool, batch, variant, step, path, escaped>>

\* retrieveContext without a companyId
S_RetrieveMock ==
  /\ variant = "simple" /\ pc = "s_retrieve"
  /\ \E matched \in KeywordMatches :
       state' = SimpleRetrieveContext(state, FALSE, NoSearch, matched)
  /\ pc' = "s_generate"
  /\ UNCHANGED <<cache, route, pool, batch, variant, step, obs, calls, path, escaped>>

\* retrieveContext with a companyId
S_RetrieveContext ==
  /\ variant = "simple" /\ pc = "s_retrieve"
  /\ \E searchResults \in SearchOutcomes, matched \in KeywordMatches :
       /\ state' = SimpleRetrieveContext(state, TRUE, searchResults, matched)
       /\ obs' = [obs EXCEPT !.search = searchResults]
  /\ calls' = [calls EXCEPT !.search = @ + 1]
  /\ pc' = "s_generate"
  /\ UNCHANGED <<cache, route, pool, batch, variant, step, path, escaped>>

S_GenerateResponse ==
  /\ variant = "simple" /\ pc = "s_generate"
  /\ \E out \in SimpleResponseOutputs :
       /\ state' = SimpleGenerateResponse(state, out)
       /\ obs' = [obs EXCEPT !.response = out]
  /\ calls' = [calls EXCEPT !.response = @ + 1]
  /\ pc' = "s_suggest"
  /\ UNCHANGED <<cache, route, pool, batch, variant, step, path, escaped>>

\* Steps 4 and 5 of processUserMessage and its return
S_Finish ==
  /\ variant = "simple" /\ pc = "s_suggest"
  /\ \E out \in IF SimpleSkipsSuggestions(state.confidence)
                THEN {NoSuggestionOutput} ELSE SuggestionOutputs :
       /\ state' = [state EXCEPT
                      !.currentStatus =
                         SimpleStatus(state.needsHumanIntervention, state.confidence),
                      !.suggestions = SimpleGenerateSuggestions(state.confidence, out)]
       /\ obs' = [obs EXCEPT !.suggestions = out]
       /\ calls' = [calls EXCEPT !.suggestions =
                      IF SimpleSkipsSuggestions(state.confidence) THEN @ ELSE @ + 1]
  /\ pc' = "done"
  /\ path' = "normal"
  /\ UNCHANGED <<cache, route, pool, batch, variant, step, escaped>>

NextAll ==
  \/ Next
  \/ S_Start
  \/ S_AnalyzeQuery
  \/ S_RetrieveMock
  \/ S_RetrieveContext
  \/ S_GenerateResponse
  \/ S_Finish

\* the three workflows side by side
SpecAll == Init /\ [][NextAll]_vars

\* the workflow is about to call the response generation
AtResponseGeneration ==
  \/ variant = "handoff" /\ pc = "generate"
  \/ variant = "concurrent" /\ pc = "step2"
  \/ variant = "simple" /\ pc = "s_generate"

\* the search ran and returned passages
SearchFoundPassages ==
  calls.search > 0 /\ obs.search.kind = "ok" /\ Len(obs.search.chunks) > 0

\* the search returned no passage (or, in the simple workflow, was not run
\* for want of a companyId)
SearchFoundNothing ==
  \/ calls.search > 0 /\ obs.search.kind = "ok" /\ Len(obs.search.chunks) = 0
  \/ variant = "simple" /\ calls.search = 0

SearchThrew == calls.search > 0 /\ obs.search.kind = "throw"

FallbackContexts ==
  IF variant = "simple"
  THEN {SimpleFallbackContext(matched) : matched \in KeywordMatches}
  ELSE {FallbackContext}

\* C18: in every workflow variant the passage list handed to response
\* generation is non-empty: the passages of the search when it returned
\* some, the fixed fallback passages when it returned none, a fixed error
\* passage when it threw; sources is empty in the latter two cases.
C18_PassagesNeverEmpty ==
  AtResponseGeneration =>
    /\ Len(state.retrievedContext) > 0
    /\ SearchFoundPassages =>
         /\ state.retrievedContext = obs.search.chunks
         /\ state.sources = obs.search.sources
    /\ SearchFoundNothing =>
         /\ state.retrievedContext \in FallbackContexts
         /\ state.sources = <<>>
    /\ SearchThrew =>
         /\ state.retrievedContext =
              IF variant = "simple" THEN SimpleErrorContext ELSE ErrorContext
         /\ state.sources = <<>>

C18_Witness ==
  /\ AtResponseGeneration /\ variant = "concurrent"
  /\ SearchFoundNothing
  /\ state.retrievedContext = FallbackContext

\* the generator confidence that enters the result of the turn
GeneratorConfidenceUsed ==
  IF variant = "simple" THEN state.confidence
  ELSE IF ResponseReported THEN ToNumber(ReportedG)
  ELSE 300

\* the analyzer reported a confidence of 0.6
AnalyzerAboutSixTenths == AnalysisReported /\ obs.analysis.conf = 600

\* C19: whenever retrieval found no tenant passages and the fallback
\* context was substituted, the generator confidence that enters the result
\* is at most 0.5, and with an analyzer confidence of 0.6 the turn is yellow
\* or red with at least one suggestion, in the simple workflow and in the
\* handoff pipeline alike.
C19_FallbackCapsGeneratorConfidence ==
  ( /\ Returned /\ variant \in {"simple", "handoff"} /\ path = "normal"
    /\ SearchFoundNothing )
  => /\ IsNumber(GeneratorConfidenceUsed) /\ GeneratorConfidenceUsed <= 500
     /\ AnalyzerAboutSixTenths =>
          /\ Result.status \in {"yellow", "red"}
          /\ Len(Result.suggestions) >= 1

(***************************************************************************)
(* The pool of model handles as a state machine                            *)
(***************************************************************************)
\* calls of getInstance in one run
MaxPoolCalls == 20

TurnVars == <<variant, pc, state, step, obs, calls, path, escaped>>

P_GetInstance(caller) ==
  /\ pool.n < MaxPoolCalls
  /\ pool' = [PoolGetInstance(pool) EXCEPT !.caller = caller]
  /\ UNCHANGED <<TurnVars, batch, cache, route>>

P_WarmUp ==
  /\ pool' = PoolWarmUp(pool)
  /\ UNCHANGED <<TurnVars, batch, cache, route>>

NextPool ==
  \/ \E caller \in PoolCallers : P_GetInstance(caller)
  \/ P_WarmUp

SpecPool == Init /\ [][NextPool]_vars

(***************************************************************************)
(* A batch of turns as a state machine                                     *)
(***************************************************************************)
\* turns of one batch
MaxBatchTurns == 3

\* largest maxConcurrency
MaxConcurrency == 2

BatchInputs ==
  UNION {[1..n -> ConversationIds] : n \in 0..MaxBatchTurns}

\* processBatchConversations is called, up to the await of Promise.all
B_Start ==
  /\ batch.phase \in {"idle", "returned"}
  /\ \E k \in 1..MaxConcurrency, ids \in BatchInputs :
       batch' = [phase |-> "running",
                 k |-> k,
                 ids |-> ids,
                 semaphore |-> AfterMap(ids, k).semaphore,
                 tpc |-> AfterMap(ids, k).tpc,
                 results |-> [i \in 1..Len(ids) |-> NoResult],
                 scn |-> [i \in 1..Len(ids) |-> "none"],
                 order |-> <<>>,
                 releases |-> [i \in 1..Len(ids) |-> 0]]
  /\ UNCHANGED <<TurnVars, pool, cache, route>>

\* the timer of a waiting turn fires: checkSlot runs again
B_CheckSlot(i) ==
  /\ batch.phase = "running" /\ batch.tpc[i] = "waiting"
  /\ LET t == TryAcquire(batch.semaphore, SlotOf(i - 1, batch.k), batch.ids[i]) IN
     batch' = [batch EXCEPT !.semaphore = t.semaphore,
                            !.tpc[i] = IF t.ok THEN "acquired" ELSE "waiting"]
  /\ UNCHANGED <<TurnVars, pool, cache, route>>

\* the await of the slot promise resumes and calls runConcurrentWorkflow
B_Enter(i) ==
  /\ batch.phase = "running" /\ batch.tpc[i] = "acquired"
  /\ batch' = [batch EXCEPT !.tpc[i] = "running"]
  /\ UNCHANGED <<TurnVars, pool, cache, route>>

\* runConcurrentWorkflow settles: the result is stored and the finally
\* block releases the slot
B_Finish(i) ==
  /\ batch.phase = "running" /\ batch.tpc[i] = "running"
  /\ \E name \in BatchScenarioNames :
       batch' = [batch EXCEPT
                   !.results = BatchStore(batch.results, i,
                                 ProcessConversation(batch.ids[i], ScenarioOutcomes[name])),
                   !.scn[i] = name,
                   !.semaphore = ReleaseSlot(@, SlotOf(i - 1, batch.k)),
                   !.releases[i] = @ + 1,
                   !.tpc[i] = "done",
                   !.order = Append(@, i)]
  /\ UNCHANGED <<TurnVars, pool, cache, route>>

\* Promise.all resolves and the results array is returned
B_Return ==
  /\ batch.phase = "running"
  /\ \A i \in 1..Len(batch.ids) : batch.tpc[i] = "done"
  /\ batch' = [batch EXCEPT !.phase = "returned"]
  /\ UNCHANGED <<TurnVars, pool, cache, route>>

NextBatch ==
  \/ B_Start
  \/ \E i \in 1..Len(batch.ids) : B_CheckSlot(i)
  \/ \E i \in 1..Len(batch.ids) : B_Enter(i)
  \/ \E i \in 1..Len(batch.ids) : B_Finish(i)
  \/ B_Return

SpecBatch == Init /\ [][NextBatch]_vars

\* C15: getInstance selects round-robin over a fixed pool of 5: once
\* populated the pool keeps 5 handles, currentIndex stays in 0..4, the n-th
\* call (counted from 0) returns handle n mod 5, and the selection counts
\* of any two handles differ by at most 1.
C15_RoundRobinOverFive ==
  /\ pool.n > 0 => pool.instances = 5
  /\ pool.currentIndex \in 0..4
  /\ pool.n > 0 => pool.returned = (pool.n - 1) % 5
  /\ \A h1, h2 \in DOMAIN pool.selections :
       pool.selections[h1] - pool.selections[h2] <= 1

C15_Witness == pool.n >= 7 /\ pool.returned = 1 /\ pool.currentIndex = 2

\* turn i holds a slot: from the successful checkSlot to the finally block
HoldsSlot(i) == batch.tpc[i] \in {"acquired", "running"}

\* the turns that are inside runConcurrentWorkflow
InWorkflow == {i \in 1..Len(batch.ids) : batch.tpc[i] = "running"}

\* C13: with maxConcurrency = k >= 1 never more than k turns are inside
\* runConcurrentWorkflow, a turn is inside it only while its slot carries
\* its conversation id, and no two turns hold the same slot at once.
C13_AtMostKInFlight ==
  batch.phase = "running" =>
    /\ Cardinality(InWorkflow) <= batch.k
    /\ \A i \in InWorkflow :
         batch.semaphore[SlotOf(i - 1, batch.k)] = batch.ids[i]
    /\ \A i, j \in 1..Len(batch.ids) :
         (i # j /\ HoldsSlot(i) /\ HoldsSlot(j))
           => SlotOf(i - 1, batch.k) # SlotOf(j - 1, batch.k)

C13_Witness ==
  /\ batch.phase = "running" /\ batch.k = 2
  /\ Cardinality(InWorkflow) = 2
  /\ \E i \in 1..Len(batch.ids) : batch.tpc[i] = "waiting"

\* what runConcurrentWorkflow returns for the collaborators of turn i
ExpectedState(i) == RunConcurrentWorkflow(Scenario(batch.scn[i])).state

\* C12: the returned array has exactly one result per input turn and the
\* result at index i is the result of the input turn at index i, whatever
\* the order in which the turns completed.
C12_ResultsIndexedLikeInput ==
  batch.phase = "returned" =>
    /\ Len(batch.results) = Len(batch.ids)
    /\ \A i \in 1..Len(batch.ids) :
         /\ batch.results[i].set
         /\ batch.results[i].conversationId = batch.ids[i]
         /\ batch.results[i].state = ExpectedState(i)

C12_Witness ==
  /\ batch.phase = "returned" /\ Len(batch.ids) >= 2
  /\ batch.order[1] # 1
  /\ batch.ids[1] # batch.ids[2]
  /\ batch.scn[1] # batch.scn[2]

\* a turn in which a collaborator failed
FailingScenarios == {"model_down", "outage", "null_payload"}

\* the result of the catch of runConcurrentWorkflow
IsCatchAllResult(s) ==
  /\ s.currentStatus = "red"
  /\ s.confidence = 0
  /\ s.finalResponse = <<"technical_difficulties">>
  /\ Len(s.suggestions) = 1
  /\ s.suggestions[1].confidence = 1000

\* the other turns of the batch have the results of their own collaborators
SiblingsUntouched ==
  \A j \in 1..Len(batch.ids) :
    batch.scn[j] \notin FailingScenarios =>
      batch.results[j].set /\ batch.results[j].state = ExpectedState(j)

\* C14 as stated: a failing turn neither aborts the batch nor changes a
\* sibling's result, and its own entry is the catch-all result: red,
\* confidence 0.0, the apology text, exactly one suggestion of 1.0.
C14_FailingTurnGetsCatchAllResult ==
  batch.phase = "returned" =>
    /\ SiblingsUntouched
    /\ \A i \in 1..Len(batch.ids) :
         batch.scn[i] \in FailingScenarios =>
           IsCatchAllResult(batch.results[i].state)

\* C14 amended: a failing turn neither aborts the batch nor changes a
\* sibling's result, and its own entry is red: with confidence 0.42 and the
\* one fallback suggestion (0.8) when its model calls throw, and the
\* catch-all result when a model answers the JSON value null.
C14_FailingTurnGetsItsOwnRedResult ==
  batch.phase = "returned" =>
    /\ SiblingsUntouched
    /\ \A i \in 1..Len(batch.ids) :
         LET s == batch.results[i].state IN
         /\ batch.scn[i] \in {"model_down", "outage"} =>
              /\ s.currentStatus = "red"
              /\ s.confidence = 420
              /\ s.suggestions = <<Suggestion("fallback_suggestion", 800)>>
         /\ batch.scn[i] = "null_payload" => IsCatchAllResult(s)

C14_Witness ==
  /\ batch.phase = "returned"
  /\ \E i, j \in 1..Len(batch.ids) :
       /\ batch.scn[i] = "model_down" /\ batch.results[i].state.currentStatus = "red"
       /\ batch.scn[j] = "healthy" /\ batch.results[j].state.currentStatus = "green"

\* C21: within one turn of runConcurrentWorkflow the response model is
\* called only after retrieval has completed, and the suggestions model is
\* called only after the blended confidence has been computed, and exactly
\* when that blended confidence is not above 0.7.
C21_StagesFollowDependencies ==
  variant = "concurrent" =>
    /\ calls.response > 0 => step.contextDone
    /\ calls.suggestions > 0 => pc \in {"handoff", "done"}
    /\ (Returned /\ path = "normal") =>
         (calls.suggestions = 0 <=> Gt(Result.confidence, 700))

\* C22: in runConcurrentWorkflow, when the analyzer reports the
\* human-needed flag with an aiConfidence below 0.3, the turn returns red
\* and neither the retrieval collaborator nor the response model has been
\* invoked.
C22_ConcurrentEarlyExitCallsNothing ==
  ( /\ variant = "concurrent" /\ Returned
    /\ AnalyzerFlag
    /\ IsNumber(obs.analysis.conf) /\ obs.analysis.conf < 300 )
  => /\ Result.status = "red"
     /\ calls.search = 0
     /\ calls.response = 0

\* the handoff step of either workflow runs and the status update fails
HandoffStepWithFailedUpdate ==
  /\ pc = "handoff" /\ pc' = "done"
  /\ obs'.persist \in {"error", "throw"}

\* C24: when the status update fails during the handoff of a red turn, the
\* handoff step catches the failure: the turn stays red with the confidence
\* and suggestions it had, the 'connecting you with a human agent' sentence
\* is appended to the response, and nothing is thrown to the caller.
C24_FailedUpdateStillHandsOff ==
  [][ HandoffStepWithFailedUpdate =>
        /\ ~escaped'
        /\ state'.currentStatus = "red"
        /\ state'.confidence = state.confidence
        /\ state'.suggestions = state.suggestions
        /\ state'.finalResponse =
             Append(state.finalResponse, "connecting_human_agent") ]_vars

\* C25: every result of processUserMessageConcurrent whose status is green
\* has an empty suggestions list.
C25_ConcurrentGreenHasNoSuggestions ==
  Returned /\ variant = "concurrent" /\ Result.status = "green"
    => Result.suggestions = <<>>

\* a step of a batch that is under way
BatchProgress ==
  \/ \E i \in 1..Len(batch.ids) : B_CheckSlot(i)
  \/ \E i \in 1..Len(batch.ids) : B_Enter(i)
  \/ \E i \in 1..Len(batch.ids) : B_Finish(i)
  \/ B_Return

\* the event loop runs the pending timers and continuations, and the
\* workflow of every turn that has started settles
SpecBatchLive == Init /\ [][NextBatch]_vars /\ WF_vars(BatchProgress)

AllSlotsFree == \A j \in DOMAIN batch.semaphore : batch.semaphore[j] = Null

\* C26: for every maxConcurrency >= 1 and every finite list of turns whose
\* workflows finish, the batch eventually returns; by then every turn has
\* acquired its slot and run, every turn has released its slot exactly once
\* (also a turn that failed) and all slots are free; a slot is released only
\* by a turn that holds it, when that turn is done.
C26_BatchResolvesAndFreesSlots ==
  /\ (batch.phase = "running") ~> (batch.phase = "returned")
  /\ [](batch.phase = "returned" =>
          /\ AllSlotsFree
          /\ \A i \in 1..Len(batch.ids) :
               batch.tpc[i] = "done" /\ batch.releases[i] = 1)
  /\ [](\A i \in 1..Len(batch.ids) :
          /\ batch.releases[i] <= 1
          /\ batch.releases[i] = 1 <=> batch.tpc[i] = "done")

C26_Witness ==
  /\ batch.phase = "returned" /\ batch.k = 2 /\ Len(batch.ids) = 3
  /\ batch.scn[1] = "null_payload"
  /\ batch.order[3] = 3
  /\ AllSlotsFree

(***************************************************************************)
(* The caches as a state machine                                           *)
(***************************************************************************)
\* getOrSet calls that await their fetch function at the same time
MaxInFlight == 2

\* service calls in one run
MaxCacheCalls == 3

NotCacheVars == <<TurnVars, pool, batch, route>>

CanCall == cache.calls < MaxCacheCalls /\ Len(cache.pending) < MaxInFlight

\* CachedKnowledgeBaseService.search
S_Search(tenant, query) ==
  /\ CanCall
  /\ \E options \in SearchOptions :
       cache' = GetOrSetBegin(cache, tenant, "KNOWLEDGE_BASE",
                              SearchCacheKey(query, tenant, options))
  /\ UNCHANGED NotCacheVars

\* CachedKnowledgeBaseService.getDocuments
S_GetDocuments(tenant) ==
  /\ CanCall
  /\ cache' = GetOrSetBegin(cache, tenant, "KNOWLEDGE_BASE", DocumentsCacheKey(tenant))
  /\ UNCHANGED NotCacheVars

\* CachedConversationService.getConversationMessages
S_GetConversationMessages(conversationId, page) ==
  /\ CanCall
  /\ cache' = GetOrSetBegin(cache, ConversationOwner[conversationId], "CONVERSATIONS",
                            MessagesCacheKey(conversationId, page))
  /\ UNCHANGED NotCacheVars

\* CachedConversationService.getConversationsWithStats
S_GetConversationsWithStats(tenant) ==
  /\ CanCall
  /\ cache' = GetOrSetBegin(cache, tenant, "CONVERSATIONS", StatsCacheKey(tenant))
  /\ UNCHANGED NotCacheVars

\* CachedCompanyService.getUserCompanyId
S_GetUserCompanyId(userId) ==
  /\ CanCall
  /\ cache' = GetOrSetBegin(cache, "none", "COMPANY_DATA", UserCompanyCacheKey(userId))
  /\ UNCHANGED NotCacheVars

\* the fetch function of a pending getOrSet resolves
G_FetchResolve(i) ==
  /\ i \in 1..Len(cache.pending)
  /\ \E data \in CacheData : cache' = GetOrSetResolve(cache, i, data)
  /\ UNCHANGED NotCacheVars

\* the fetch function of a pending getOrSet rejects
G_FetchThrow(i) ==
  /\ i \in 1..Len(cache.pending)
  /\ cache' = GetOrSetThrow(cache, i)
  /\ UNCHANGED NotCacheVars

\* CachedAIResponseService.setCachedResponse
A_SetCachedResponse(tenant, query) ==
  /\ cache.calls < MaxCacheCalls
  /\ \E context \in ResponseContexts, data \in CacheData :
       LET key == ResponseCacheKey(query, tenant, context)
           value == [origin |-> tenant, data |-> data]
       IN cache' = [cache EXCEPT
                      !.store = CacheSet(@, "AI_RESPONSES", key, value),
                      !.calls = @ + 1,
                      !.last = [op |-> "set", tenant |-> tenant,
                                cache |-> "AI_RESPONSES", key |-> key,
                                outcome |-> "stored", value |-> value]]
  /\ UNCHANGED NotCacheVars

\* CachedAIResponseService.getCachedResponse
A_GetCachedResponse(tenant, query) ==
  /\ cache.calls < MaxCacheCalls
  /\ \E context \in ResponseContexts :
       LET key == ResponseCacheKey(query, tenant, context)
       IN cache' = [cache EXCEPT
                      !.calls = @ + 1,
                      !.last = [op |-> "get", tenant |-> tenant,
                                cache |-> "AI_RESPONSES", key |-> key,
                                outcome |-> IF HasEntry(cache.store, "AI_RESPONSES", key)
                                            THEN "hit" ELSE "miss",
                                value |-> CacheGet(cache.store, "AI_RESPONSES", key)]]
  /\ UNCHANGED NotCacheVars

\* an LRUCache drops an entry: its time to live has passed or the cache is
\* full
K_Expire ==
  /\ \E e \in cache.store : cache' = WithStore(cache, cache.store \ {e})
  /\ UNCHANGED NotCacheVars

\* CachedKnowledgeBaseService.invalidateCompanyCache
I_InvalidateCompanyCache(companyId) ==
  /\ cache' = [WithStore(cache, InvalidateCompanyCache(cache.store, companyId))
                 EXCEPT !.last = [NoLookup EXCEPT !.op = "invalidateCompany",
                                                  !.tenant = companyId]]
  /\ UNCHANGED NotCacheVars

\* CachedConversationService.invalidateConversationCache
I_InvalidateConversationCache(conversationId) ==
  /\ cache' = [WithStore(cache,
                         InvalidateConversationCache(cache.store, conversationId,
                                                     ConversationOwner[conversationId]))
                 EXCEPT !.last = [NoLookup EXCEPT !.op = "invalidateConversation",
                                                  !.tenant = ConversationOwner[conversationId],
                                                  !.key = <<conversationId>>]]
  /\ UNCHANGED NotCacheVars

\* two tenants search and use the AI response cache
NextCacheTenants ==
  \/ \E tenant \in Tenants, query \in Queries : S_Search(tenant, query)
  \/ \E tenant \in Tenants, query \in Queries : A_SetCachedResponse(tenant, query)
  \/ \E tenant \in Tenants, query \in Queries : A_GetCachedResponse(tenant, query)
  \/ \E i \in 1..MaxInFlight : G_FetchResolve(i)
  \/ \E i \in 1..MaxInFlight : G_FetchThrow(i)
  \/ K_Expire

SpecCacheTenants == Init /\ [][NextCacheTenants]_vars

\* callers of getOrSet on one cache
NextGetOrSet ==
  \/ \E userId \in Users : S_GetUserCompanyId(userId)
  \/ \E i \in 1..MaxInFlight : G_FetchResolve(i)
  \/ \E i \in 1..MaxInFlight : G_FetchThrow(i)
  \/ K_Expire

SpecGetOrSet == Init /\ [][NextGetOrSet]_vars

\* the knowledge-base and conversation caches fill and are invalidated
NextInvalidate ==
  \/ \E tenant \in Tenants : S_Search(tenant, "refund")
  \/ \E tenant \in Tenants : S_GetDocuments(tenant)
  \/ \E conversationId \in DOMAIN ConversationOwner, page \in Pages :
       S_GetConversationMessages(conversationId, page)
  \/ \E tenant \in Tenants : S_GetConversationsWithStats(tenant)
  \/ \E i \in 1..MaxInFlight : G_FetchResolve(i)
  \/ \E i \in 1..MaxInFlight : G_FetchThrow(i)
  \/ \E tenant \in Tenants : I_InvalidateCompanyCache(tenant)
  \/ \E conversationId \in DOMAIN ConversationOwner :
       I_InvalidateConversationCache(conversationId)

SpecInvalidate == Init /\ [][NextInvalidate]_vars

(***************************************************************************)
(* The chat route as a state machine                                       *)
(***************************************************************************)
NotRouteVars == <<TurnVars, pool, batch, cache>>

\* POST up to the await of processUserMessageWithHandoff; isArray: whether
\* previousMessages has a map method
R_Receive(message, conversationId, companyId, isArray) ==
  /\ route.phase = "idle"
  /\ \E fresh \in FreshUuids :
       route' =
         IF IsRejected(message, conversationId)
         THEN [route EXCEPT !.phase = "done", !.supplied = conversationId,
                            !.httpStatus = 400]
         ELSE IF ~isArray
         THEN [route EXCEPT !.phase = "done", !.supplied = conversationId,
                            !.httpStatus = 500, !.bodyId = "error",
                            !.turnStatus = "red"]
         ELSE [route EXCEPT !.phase = "running", !.supplied = conversationId,
                            !.workflowId = ValidConversationId(conversationId, fresh),
                            !.workflowCompany = ValidCompanyId(companyId, "company_new")]
  /\ UNCHANGED NotRouteVars

\* the workflow returns its result; a turn that ends red has gone through
\* the handoff step, which updates the conversation of state.conversationId
R_Respond(status) ==
  /\ route.phase = "running"
  /\ route' = [route EXCEPT !.phase = "done", !.turnStatus = status,
                            !.persistedId = IF status = "red" THEN route.workflowId
                                            ELSE "none",
                            !.httpStatus = 200, !.bodyId = route.supplied]
  /\ UNCHANGED NotRouteVars

\* the workflow rejects; the catch of POST answers
R_Fail ==
  /\ route.phase = "running"
  /\ route' = [route EXCEPT !.phase = "done", !.turnStatus = "red",
                            !.httpStatus = 500, !.bodyId = "error"]
  /\ UNCHANGED NotRouteVars

NextRoute ==
  \/ \E message \in {"", "hi"}, conversationId \in SuppliedConversationIds,
        companyId \in SessionCompanyIds, isArray \in BOOLEAN :
       R_Receive(message, conversationId, companyId, isArray)
  \/ \E status \in {"green", "yellow", "red"} : R_Respond(status)
  \/ R_Fail

SpecRoute == Init /\ [][NextRoute]_vars

(***************************************************************************)
(* Properties of the caches and of the chat route                          *)
(***************************************************************************)
\* C23: a lookup made for one tenant, in the knowledge-base search cache or
\* in the AI response cache, never returns a value that a call made for
\* another tenant stored, also when query, options and context are the same
C23_LookupsStayInsideTenant ==
  cache.last.outcome \in {"hit", "fetched"} =>
    cache.last.value.origin = cache.last.tenant

\* tenant_b reads the AI response cache and gets its own entry while the
\* cache holds tenant_a's entry for the same query and context
C23_Witness ==
  /\ cache.last.op = "get"
  /\ cache.last.outcome = "hit"
  /\ cache.last.tenant = "tenant_b"
  /\ \E e \in cache.store :
       /\ e.cache = "AI_RESPONSES"
       /\ e.key[2] = "tenant_a"
       /\ e.key[3] = cache.last.key[3]
       /\ e.key[4] = cache.last.key[4]
       /\ e.value.origin = "tenant_a"

\* C27: getOrSet invokes the fetch function at most once per key while no
\* entry of that key has been removed, also when two calls for the key
\* overlap
C27_FetchAtMostOncePerKey ==
  \A i, j \in 1..Len(cache.fetches) :
    cache.fetches[i] = cache.fetches[j] => i = j

\* C28: a getOrSet for a key whose fetched value is in the cache returns
\* that value without invoking the fetch function, whatever the value,
\* null included; a fetch that throws leaves the cache as it was and the
\* error is rethrown
C28_StoredValueIsReturnedWithoutFetch ==
  [][/\ \A userId \in Users :
          (/\ S_GetUserCompanyId(userId)
           /\ HasEntry(cache.store, "COMPANY_DATA", UserCompanyCacheKey(userId)))
          => /\ cache'.fetches = cache.fetches
             /\ cache'.last.outcome = "hit"
             /\ cache'.last.value =
                  CacheGet(cache.store, "COMPANY_DATA", UserCompanyCacheKey(userId))
      /\ \A i \in 1..MaxInFlight :
          G_FetchThrow(i) => /\ cache'.store = cache.store
                             /\ cache'.last.outcome = "error"]_vars

\* the entries of cacheName written for company companyId
EntriesOfCompany(store, cacheName, companyId) ==
  {e \in store : e.cache = cacheName /\ e.value.origin = companyId}

\* the cached message pages of conversation conversationId
PagesOfConversation(store, conversationId) ==
  {e \in store : /\ e.cache = "CONVERSATIONS"
                 /\ e.key[1] = "conversation_messages"
                 /\ e.key[2] = conversationId}

\* the conversations_stats entries of company companyId
StatsOfCompany(store, companyId) ==
  {e \in store : /\ e.cache = "CONVERSATIONS"
                 /\ e.key[1] = "conversations_stats"
                 /\ e.key[2] = companyId}

\* C29: invalidateCompanyCache(c) leaves no KNOWLEDGE_BASE entry written
\* for c, invalidateConversationCache(id, c) leaves no message page of id
\* and no conversations_stats entry of c, and both leave every other entry
\* as it was
C29_InvalidationRemovesExactlyItsTarget ==
  [][/\ \A companyId \in Tenants :
          I_InvalidateCompanyCache(companyId) =>
            cache'.store =
              cache.store \ EntriesOfCompany(cache.store, "KNOWLEDGE_BASE", companyId)
      /\ \A conversationId \in DOMAIN ConversationOwner :
          I_InvalidateConversationCache(conversationId) =>
            cache'.store =
              cache.store \ (PagesOfConversation(cache.store, conversationId)
                             \cup StatsOfCompany(cache.store,
                                                 ConversationOwner[conversationId]))]_vars

\* C30: for an accepted request, the conversation id the workflow ran under
\* (and under which a red status was persisted) is the id the response body
\* returns
C30_BodyIdIsWorkflowId ==
  (route.phase = "done" /\ route.httpStatus = 200) =>
    /\ route.bodyId = route.workflowId
    /\ route.turnStatus = "red" => route.persistedId = route.bodyId

====
